---------------------------- MODULE Spec2Model ----------------------------
(***************************************************************************)
(* A model of the MindMerger reasoning pipeline:                           *)
(*   - squeeze_pad, the padding compaction of MindReasoner and             *)
(*     NaiveMindReasoner (modeling_mindreasoner.py,                        *)
(*     modeling_naivemindreasoner.py);                                     *)
(*   - the forward pass of both classes up to the call of the LLM;         *)
(*   - the constructors of both classes (freezing, LoRA injection);        *)
(*   - main() of run_training_naive_reasoning.py;                          *)
(*   - translate_sentences_in_batches of the data scripts.                 *)
(* Tensors are sequences: a [bs, n] tensor is a sequence of bs rows of n   *)
(* integers, a [bs, n, dim] tensor a sequence of bs rows of n vectors of   *)
(* dim integers.  Indices are 1-based here and 0-based in the source.      *)
(* A tensor expression ends in \o <<>>, which changes no value and makes    *)
(* TLC evaluate the tensor once instead of at every use.                   *)
(***************************************************************************)
EXTENDS Integers, Sequences, FiniteSets, TLC

VARIABLES
    \* squeeze_pad called on its own
    sq_hidden,        \* hidden_states argument, [bs, n, dim]
    sq_masks,         \* masks argument, [bs, n]
    sq_out,           \* the returned triple, or NoValue before the call
    \* one call of forward
    attention_mask_mt,   \* [bs, MtLen] mask of the MT tokens
    mask_label,          \* [bs, LabelLen] mask of the labels, None: labels=None
    sort_ties,           \* how this build's torch.sort orders equal keys
    fw_class,            \* the class whose forward was called
    mask_prompt,         \* the mask_prompt argument, None: input_ids_prompt=None
    llm_call,            \* what forward handed to the LLM, NoValue before the call
    \* one construction of MindReasoner or NaiveMindReasoner
    ctor_args,           \* the class and the constructor's arguments
    PEFT_AVAILABLE,      \* whether "from peft import ..." succeeded
    ctor_result,         \* the object built or the exception raised, NoValue before
    \* one run of main() of run_training_naive_reasoning.py
    tr_pc,               \* the statement main() is at
    raised,              \* the exception that ended the run, "none" while it runs
    stage_name,          \* args.stage_name
    task,                \* the local task (reassigned in stage mapping)
    save_name,           \* args.save_name
    init_checkpoint,     \* args.init_checkpoint, NoPath for None
    checkpoint_given,    \* whether --init_checkpoint was on the command line
    output_model_path_base,  \* the directory this run saves to
    train_set,           \* the reader that produced train_set, "none" before
    train_batch_size,    \* args.train_batch_size
    train_micro_batch_size_per_gpu,  \* args.train_micro_batch_size_per_gpu
    gpu_num,             \* torch.cuda.device_count()
    gradient_accumulation,
    ds_config,           \* what get_train_ds_config was called with, NoValue before
    tokenizers_loaded,
    model,               \* the NaiveMindReasoner object, NoValue before
    loaded_checkpoint,   \* the file given to torch.load, NoPath when none was
    model_parameters,    \* the parameters handed to deepspeed.initialize
    ds_initialized,      \* whether deepspeed.initialize was called
    global_rank,
    best_perplexity,
    epoch_num,           \* args.epoch_num
    steps_per_epoch,     \* len(train_dl)
    epoch,
    step_count,
    train_steps,         \* forward/backward/step triples done so far
    evals,               \* calls of evaluate_ppl so far
    saves,               \* calls of save_reasoner_model so far
    perplexity,          \* what evaluate_ppl returned last in the loop, 0 before
    lowest_evaluated,    \* history: the lowest perplexity evaluated so far, 0 before
    \* one call of translate_sentences_in_batches
    sentences,           \* the sentences argument
    batch_size,          \* the batch_size argument
    tl_pc,               \* "loop" inside the for loop, "returned" after return
    tl_i,                \* the loop variable i, the next value range() yields
    generate_calls,      \* the batches model.generate was called on, in order
    translated_sentences,
    \* one run of main() of run_evaluation_reasoner.py
    ev_pc,               \* the statement main() is at
    ev_raised,           \* the exception that ended the run, "none" while it runs
    ev_task_arg,         \* args.task
    ev_task,             \* the local task (reassigned for mgsm and msvamp)
    lora_path,           \* whether args.lora_path is not None
    init_mapping_checkpoint,  \* whether args.init_mapping_checkpoint is not None
    test_sets,           \* the reader that produced test_sets, "none" before
    ev_ds_config,        \* what get_train_ds_config was called with, NoValue before
    ev_model,            \* the MindReasoner object, NoValue before
    mapping_loaded,      \* whether model.mapping.load_state_dict was called
    adapter_loaded,      \* whether PeftModel.from_pretrained was called
    num_test_sets,       \* len(test_sets)
    evaluator_calls      \* the evaluator called for each language so far

sqVars == <<sq_hidden, sq_masks, sq_out>>
fwVars == <<attention_mask_mt, mask_label, sort_ties, fw_class, mask_prompt, llm_call>>

ctorVars == <<ctor_args, ctor_result>>
trArgs == <<stage_name, save_name, checkpoint_given>>
trSetup == <<task, init_checkpoint, output_model_path_base, train_set>>
trHyper == <<train_batch_size, train_micro_batch_size_per_gpu, gpu_num,
             gradient_accumulation, ds_config>>
trModel == <<tokenizers_loaded, model, loaded_checkpoint, model_parameters,
             ds_initialized>>
trLoop == <<global_rank, best_perplexity, epoch_num, steps_per_epoch, epoch,
            step_count, train_steps, evals, saves, perplexity, lowest_evaluated>>
trVars == <<tr_pc, raised, trArgs, trSetup, trHyper, trModel, trLoop>>

tlVars == <<sentences, batch_size, tl_pc, tl_i, generate_calls, translated_sentences>>

evVars == <<ev_pc, ev_raised, ev_task_arg, ev_task, lora_path, init_mapping_checkpoint,
            test_sets, ev_ds_config, ev_model, mapping_loaded, adapter_loaded,
            num_test_sets, evaluator_calls>>

vars == <<sqVars, fwVars, PEFT_AVAILABLE, ctorVars, trVars, tlVars, evVars>>

NoValue == [none |-> TRUE]      \* no record yet
None == <<>>                    \* Python's None in place of a tensor or a list

(***************************************************************************)
(* Bounds of the model.                                                    *)
(***************************************************************************)
MaxBs == 2          \* largest batch size
MaxSqLen == 3       \* longest row handed to squeeze_pad on its own
HiddenDim == 2      \* size of one hidden vector
MtLen == 2          \* MT tokens per row
LabelLen == 1       \* label tokens per row
PromptLen == 1      \* prompt tokens per row
MaxTrainBatch == 2  \* largest --train_batch_size
MaxMicroBatch == 2  \* largest --train_micro_batch_size_per_gpu
MaxGpu == 1         \* most visible GPUs
MaxRank == 1        \* highest rank of the distributed run
MaxEpochs == 2      \* largest --epoch_num
MaxSteps == 1       \* most batches of train_dl
MaxPpl == 2         \* dev perplexities are 1..MaxPpl
MaxSentences == 4   \* longest list given to translate_sentences_in_batches
MaxSentenceId == 2  \* distinct sentences
MaxBatchSize == 3   \* largest batch_size argument
MaxTestSets == 2    \* most languages in test_sets

(***************************************************************************)
(* Tensor helpers (the torch operations the source calls).                 *)
(***************************************************************************)
RECURSIVE Concat(_)
Concat(ss) == IF ss = <<>> THEN <<>> ELSE Head(ss) \o Concat(Tail(ss))

Min(a, b) == IF a <= b THEN a ELSE b

RECURSIVE SumSeq(_)
SumSeq(s) == IF s = <<>> THEN 0 ELSE Head(s) + SumSeq(Tail(s))

\* torch.cat([a, b], dim=1) for tensors of equally many rows
Cat1(a, b) == [r \in 1..Len(a) |-> a[r] \o b[r]] \o <<>>

\* t.gather(1, idx): out[r][j] = t[r][idx[r][j]]
Gather1(t, idx) ==
    [r \in 1..Len(t) |-> [j \in 1..Len(t[r]) |-> t[r][idx[r][j]]] \o <<>>] \o <<>>

\* t[b] for a boolean tensor b of t's first two dimensions: the selected
\* entries of t, row-major, as one flat sequence of rows' entries
BoolIndex(t, b) ==
    Concat([r \in 1..Len(t) |->
        LET RECURSIVE Pick(_)
            Pick(c) == IF c > Len(t[r]) THEN <<>>
                       ELSE (IF b[r][c] THEN <<t[r][c]>> ELSE <<>>) \o Pick(c + 1)
        IN  Pick(1)])

\* flat.view(bs, -1): bs rows of Len(flat) / bs entries each
View2(flat, bs) ==
    LET k == Len(flat) \div bs
    IN  [r \in 1..bs |-> [j \in 1..k |-> flat[(r - 1) * k + j]] \o <<>>] \o <<>>

\* flat.view(bs, -1, dim) of a flat sequence of scalars
View3(flat, bs, dim) ==
    LET k == Len(flat) \div (bs * dim)
    IN  [r \in 1..bs |-> [j \in 1..k |->
            [d \in 1..dim |-> flat[((r - 1) * k + (j - 1)) * dim + d]] \o <<>>]
            \o <<>>] \o <<>>

(***************************************************************************)
(* torch.sort(1, descending=False) is called without stable=True: the      *)
(* order in which equal keys come out is not specified.  A sort outcome    *)
(* is fixed by a tie priority per column: among equal keys the column of   *)
(* smaller priority comes first.  Only padding columns have equal keys     *)
(* (key 0); the real columns carry their offsets, which are distinct.      *)
(***************************************************************************)
\* the priorities that order the padding columns of one mask row in every
\* possible way (real columns get priority 0)
TieChoices(mrow) ==
    LET n   == Len(mrow)
        pad == {c \in 1..n : mrow[c] = 0}
        k   == Cardinality(pad)
    IN  {t \in [1..n -> 0..k] :
            /\ \A c \in 1..n \ pad : t[c] = 0
            /\ \A c \in pad : t[c] # 0
            /\ \A c, c2 \in pad : c # c2 => t[c] # t[c2]}

\* one tie priority per row of a mask tensor, in every possible way
RECURSIVE TieTensors(_)
TieTensors(masks) ==
    IF masks = <<>> THEN {<<>>}
    ELSE {<<t>> \o rest : t \in TieChoices(Head(masks)), rest \in TieTensors(Tail(masks))}

\* the index tensor torch.sort returns for one row of keys
SortRowIdx(keys, tie) ==
    LET n == Len(keys)
        \* the place of column c in the sorted row
        rank == [c \in 1..n |-> Cardinality({c2 \in 1..n :
                        \/ keys[c2] < keys[c]
                        \/ keys[c2] = keys[c] /\ tie[c2] < tie[c]}) + 1] \o <<>>
    IN  [j \in 1..n |-> CHOOSE c \in 1..n : rank[c] = j] \o <<>>

\* _, idx = x.sort(1, descending=False), row r sorted under ties[r]
SortIdx(x, ties) == [r \in 1..Len(x) |-> SortRowIdx(x[r], ties[r])] \o <<>>

(***************************************************************************)
(* squeeze_pad (MindReasoner.squeeze_pad; NaiveMindReasoner.squeeze_pad    *)
(* is the same statements, with offset built by torch.arange).             *)
(***************************************************************************)
offset_all_ones(seq_num_len) == [i \in 1..seq_num_len |-> 1] \o <<>>

\* offset = [(i + 1) for i in range(seq_num_len)]
offset(seq_num_len) == [i \in 1..seq_num_len |-> i] \o <<>>

\* x_01 = (masks != 0).long(); x_01 *= offset
x_01(masks) ==
    LET off == offset(Len(masks[1]))
    IN  [r \in 1..Len(masks) |-> [c \in 1..Len(masks[r]) |->
            (IF masks[r][c] # 0 THEN 1 ELSE 0) * off[c]] \o <<>>] \o <<>>

\* masks_sum = torch.sum(masks, dim=0)
masks_sum(masks) ==
    [c \in 1..Len(masks[1]) |-> SumSeq([r \in 1..Len(masks) |-> masks[r][c]] \o <<>>)] \o <<>>

cut_pad_idx_keep_all(masks) ==
    LET sum == masks_sum(masks)
        idx == [c \in 1..Len(sum) |-> sum[c] >= 0] \o <<>>
    IN  [r \in 1..Len(masks) |-> idx] \o <<>>

\* idx = masks_sum > 0; idx = idx.unsqueeze(dim=0).expand_as(masks)
cut_pad_idx(masks) ==
    LET sum == masks_sum(masks)
        idx == [c \in 1..Len(sum) |-> sum[c] > 0] \o <<>>
    IN  [r \in 1..Len(masks) |-> idx] \o <<>>

gather_hidden_skipped(hidden_states, idx) == hidden_states

\* idx = idx.unsqueeze(dim=-1).expand_as(hidden_states)
\* hidden_states = hidden_states.gather(1, idx)
gather_hidden(hidden_states, idx) == Gather1(hidden_states, idx)

\* the whole of squeeze_pad; ties fixes the outcome of the unstable sort
squeeze_pad(hidden_states, masks, ties) ==
    LET idx      == SortIdx(x_01(masks), ties)
        masks1   == Gather1(masks, idx)
        hidden1  == gather_hidden(hidden_states, idx)
        bs       == Len(hidden1)
        dim      == Len(hidden1[1][1])
        keep     == cut_pad_idx(masks1)
        masks2   == BoolIndex(masks1, keep)
        \* hidden_states[idx_ex] selects scalars: the vectors of the kept
        \* columns, flattened
        hidden2  == Concat(BoolIndex(hidden1, keep))
    IN  IF hidden2 = <<>>
        \* view(bs, -1, dim) of a tensor of 0 elements: torch cannot infer
        \* the -1 dimension and raises
        THEN [raised |-> "RuntimeError", hidden_states |-> None, masks |-> None,
              idx |-> None]
        ELSE [raised        |-> "none",
              hidden_states |-> View3(hidden2, bs, dim),
              masks         |-> View2(masks2, bs),
              idx           |-> keep]

(***************************************************************************)
(* Specification SpecSqueeze: squeeze_pad on any batch of 0/1 masks.       *)
(* Attention masks are 0/1 tensors (the ones the tokenizers return and     *)
(* the torch.ones column of forward).  The hidden scalars are pairwise     *)
(* distinct, so that a lost, duplicated or moved entry shows.              *)
(***************************************************************************)
SqHidden(bs, n) ==
    [r \in 1..bs |-> [c \in 1..n |->
        [d \in 1..HiddenDim |-> 100 * r + 10 * c + d] \o <<>>] \o <<>>] \o <<>>

SqIdle == sq_hidden = None /\ sq_masks = None /\ sq_out = NoValue

FwIdle ==
    /\ attention_mask_mt = None /\ mask_label = None /\ sort_ties = "none"
    /\ fw_class = "none" /\ mask_prompt = None /\ llm_call = NoValue

CtorIdle == ctor_args = NoValue /\ ctor_result = NoValue

NoPath == [save_name |-> "none", task |-> "none", stage |-> "none", file |-> "none"]

TrIdle ==
    /\ tr_pc = "idle" /\ raised = "none" /\ stage_name = "none" /\ task = "none"
    /\ save_name = "none" /\ init_checkpoint = NoPath /\ checkpoint_given = FALSE
    /\ output_model_path_base = NoPath /\ train_set = "none"
    /\ train_batch_size = 0 /\ train_micro_batch_size_per_gpu = 0 /\ gpu_num = 0
    /\ gradient_accumulation = 0 /\ ds_config = NoValue
    /\ tokenizers_loaded = FALSE /\ model = NoValue /\ loaded_checkpoint = NoPath
    /\ model_parameters = {} /\ ds_initialized = FALSE
    /\ global_rank = 0 /\ best_perplexity = 0 /\ epoch_num = 0 /\ steps_per_epoch = 0
    /\ epoch = 0 /\ step_count = 0 /\ train_steps = 0 /\ evals = 0 /\ saves = 0
    /\ perplexity = 0 /\ lowest_evaluated = 0

TlIdle ==
    /\ sentences = <<>> /\ batch_size = 0 /\ tl_pc = "idle" /\ tl_i = 0
    /\ generate_calls = <<>> /\ translated_sentences = <<>>

EvIdle ==
    /\ ev_pc = "idle" /\ ev_raised = "none" /\ ev_task_arg = "none" /\ ev_task = "none"
    /\ lora_path = FALSE /\ init_mapping_checkpoint = FALSE /\ test_sets = "none"
    /\ ev_ds_config = NoValue /\ ev_model = NoValue /\ mapping_loaded = FALSE
    /\ adapter_loaded = FALSE /\ num_test_sets = 0 /\ evaluator_calls = <<>>

SqInit ==
    /\ FwIdle /\ CtorIdle /\ TrIdle /\ TlIdle /\ EvIdle /\ PEFT_AVAILABLE = FALSE
    /\ \E bs \in 1..MaxBs, n \in 1..MaxSqLen :
           /\ sq_masks \in [1..bs -> [1..n -> 0..1]]
           /\ sq_hidden = SqHidden(bs, n)
           /\ sq_out = NoValue

SqCall ==
    /\ sq_out = NoValue
    /\ \E ties \in TieTensors(sq_masks) :
           sq_out' = squeeze_pad(sq_hidden, sq_masks, ties)
    /\ UNCHANGED <<sq_hidden, sq_masks, fwVars, PEFT_AVAILABLE, ctorVars, trVars, tlVars, evVars>>

SqNext == SqCall

SpecSqueeze == SqInit /\ [][SqNext]_vars

(***************************************************************************)
(* Claims about squeeze_pad.                                               *)
(***************************************************************************)
\* the entries of row whose mask is non-zero, in order, each with its mask
RECURSIVE RealEntries(_, _)
RealEntries(hrow, mrow) ==
    IF mrow = <<>> THEN <<>>
    ELSE (IF Head(mrow) # 0 THEN <<<<Head(hrow), Head(mrow)>>>> ELSE <<>>)
         \o RealEntries(Tail(hrow), Tail(mrow))

NumReal(mrow) == Cardinality({c \in 1..Len(mrow) : mrow[c] # 0})

Max(S) == CHOOSE x \in S : \A y \in S : y <= x

\* every mask entry of the batch is 0
AllPadding(masks) == \A r \in 1..Len(masks) : NumReal(masks[r]) = 0

\* in every returned row the entries of non-zero mask are the row's input
\* entries of non-zero mask, in order, at the right end of the row
RealTokensKept(out) ==
    \A r \in 1..Len(sq_masks) :
        /\ RealEntries(out.hidden_states[r], out.masks[r])
             = RealEntries(sq_hidden[r], sq_masks[r])
        /\ \A j, k \in 1..Len(out.masks[r]) :
               (j < k /\ out.masks[r][j] # 0) => out.masks[r][k] # 0

LengthIsMostReal(out) ==
    LET bs   == Len(sq_masks)
        most == Max({NumReal(sq_masks[r]) : r \in 1..bs})
    IN  /\ Len(out.hidden_states) = bs
        /\ Len(out.masks) = bs
        /\ \A r \in 1..bs :
               /\ Len(out.masks[r]) = most
               /\ Len(out.hidden_states[r]) = most
               /\ \A j \in 1..most : Len(out.hidden_states[r][j]) = HiddenDim
        /\ \A j \in 1..most : \E r \in 1..bs : out.masks[r][j] # 0
        /\ \E r \in 1..bs : \A j \in 1..most : out.masks[r][j] # 0

llm_bos_token_id == 1

\* the token ids of the batch: input_ids_prompt and labels
input_ids_prompt(bs) ==
    [r \in 1..bs |-> [c \in 1..PromptLen |-> 40 + 10 * r + c] \o <<>>] \o <<>>

labels_in(bs) ==
    [r \in 1..bs |-> [c \in 1..LabelLen |-> 70 + 10 * r + c] \o <<>>] \o <<>>

\* self.llm_embedding_layer(ids) for a [bs, n] tensor of token ids
llm_embedding_layer(ids) ==
    [r \in 1..Len(ids) |-> [c \in 1..Len(ids[r]) |->
        [d \in 1..HiddenDim |-> 1000 * ids[r][c] + d] \o <<>>] \o <<>>] \o <<>>

\* self.mapping(self.encoder_mt(input_ids_mt, attention_mask_mt)[0])
mt_hidden_state(bs) ==
    [r \in 1..bs |-> [c \in 1..MtLen |->
        [d \in 1..HiddenDim |-> 500000 + 100 * r + 10 * c + d] \o <<>>] \o <<>>] \o <<>>

\* self.mapping.get_embed() expanded to [bs, 1, dim]
end_boundary(bs) ==
    [r \in 1..bs |-> <<[d \in 1..HiddenDim |-> 900000 + d] \o <<>>>>] \o <<>>

\* bos = [llm_bos_token_id] * bs; bos_embedding = embedding(bos).view(bs, 1, -1)
bos_embedding(bs) ==
    llm_embedding_layer([r \in 1..bs |-> <<llm_bos_token_id>>] \o <<>>)

\* torch.ones([bs, 1])
ones(bs) == [r \in 1..bs |-> <<1>>] \o <<>>

\* pad_labels = llm_input_mask * -100 + (1 - llm_input_mask) * -100
pad_labels(llm_input_mask) ==
    [r \in 1..Len(llm_input_mask) |-> [c \in 1..Len(llm_input_mask[r]) |->
        llm_input_mask[r][c] * (-100) + (1 - llm_input_mask[r][c]) * (-100)]
        \o <<>>] \o <<>>

\* labels = labels * mask_label - 100 * (1 - mask_label)
masked_labels(labels, mask) ==
    [r \in 1..Len(labels) |-> [c \in 1..Len(labels[r]) |->
        labels[r][c] * mask[r][c] - 100 * (1 - mask[r][c])] \o <<>>] \o <<>>

\* the tie priorities of this build's sort for a [bs, n] tensor
Ties(policy, bs, n) ==
    [r \in 1..bs |-> [c \in 1..n |->
        IF policy = "stable" THEN c ELSE n + 1 - c] \o <<>>] \o <<>>

\* steps 8 and 9 of both forwards: squeeze_pad, then generate or the loss
\* (the BOS column is all ones, so squeeze_pad does not raise here)
call_llm(embedding, mask, labels, policy) ==
    LET bs == Len(mask)
        sq == squeeze_pad(embedding, mask, Ties(policy, bs, Len(mask[1])))
    IN  IF labels = None
        THEN [fn |-> "generate", inputs_embeds |-> sq.hidden_states,
              attention_mask |-> sq.masks, labels |-> None]
        ELSE [fn |-> "forward", inputs_embeds |-> sq.hidden_states,
              attention_mask |-> sq.masks,
              \* labels = labels[cut_pad_idx]; labels = labels.view(bs, -1)
              labels |-> View2(BoolIndex(labels, sq.idx), bs)]

\* steps 7 of both forwards: append the labels when there are any
with_labels(embedding, mask, m_label, policy) ==
    IF m_label = None
    THEN call_llm(embedding, mask, None, policy)
    ELSE LET labels == labels_in(Len(mask))
         IN  call_llm(Cat1(embedding, llm_embedding_layer(labels)),
                      Cat1(mask, m_label),
                      Cat1(pad_labels(mask), masked_labels(labels, m_label)),
                      policy)

\* MindReasoner.forward
MindReasoner_forward(mask_mt, m_label, m_prompt, policy) ==
    LET bs   == Len(mask_mt)
        emb1 == Cat1(Cat1(bos_embedding(bs), mt_hidden_state(bs)), end_boundary(bs))
        msk1 == Cat1(Cat1(ones(bs), mask_mt), ones(bs))
    IN  IF m_prompt # None
        THEN with_labels(Cat1(emb1, llm_embedding_layer(input_ids_prompt(bs))),
                         Cat1(msk1, m_prompt), m_label, policy)
        ELSE with_labels(emb1, msk1, m_label, policy)

NaiveMindReasoner_forward_with_prompt(mask_mt, m_label, m_prompt, policy) ==
    MindReasoner_forward(mask_mt, m_label, m_prompt, policy)

\* NaiveMindReasoner.forward: input_ids_prompt and mask_prompt are not read
NaiveMindReasoner_forward(mask_mt, m_label, m_prompt, policy) ==
    LET bs   == Len(mask_mt)
        emb1 == Cat1(Cat1(bos_embedding(bs), mt_hidden_state(bs)), end_boundary(bs))
        msk1 == Cat1(Cat1(ones(bs), mask_mt), ones(bs))
    IN  with_labels(emb1, msk1, m_label, policy)

(***************************************************************************)
(* Specification SpecForward: one call of forward of either class.  The    *)
(* MT mask is any 0/1 tensor.  The label and prompt masks come from the    *)
(* LLM tokenizer, whose padding_side is "left": 0...01...1.                *)
(***************************************************************************)
\* bs = input_ids_mt.size(0): one row, and two rows, whose paddings differ
\* and so leave padding columns after squeeze_pad; rows meet nowhere else
FwBatchSizes == {1, 2}

LeftPadded(n) == {[c \in 1..n |-> IF c <= k THEN 0 ELSE 1] : k \in 0..n}

PromptArgs(bs) == {None} \cup [1..bs -> LeftPadded(PromptLen)]

FwInit ==
    /\ SqIdle /\ CtorIdle /\ TrIdle /\ TlIdle /\ EvIdle /\ PEFT_AVAILABLE = FALSE
    /\ \E bs \in FwBatchSizes :
           /\ attention_mask_mt \in [1..bs -> [1..MtLen -> 0..1]]
           /\ mask_label \in {None} \cup [1..bs -> LeftPadded(LabelLen)]
    /\ sort_ties \in {"stable", "reversed"}
    /\ fw_class = "none"
    /\ mask_prompt = None
    /\ llm_call = NoValue

MindForward ==
    /\ llm_call = NoValue
    /\ \E p \in PromptArgs(Len(attention_mask_mt)) :
           /\ mask_prompt' = p
           /\ llm_call' = MindReasoner_forward(attention_mask_mt, mask_label, p, sort_ties)
    /\ fw_class' = "MindReasoner"
    /\ UNCHANGED <<attention_mask_mt, mask_label, sort_ties, sqVars, PEFT_AVAILABLE,
                   ctorVars, trVars, tlVars, evVars>>

NaiveForward ==
    /\ llm_call = NoValue
    /\ \E p \in PromptArgs(Len(attention_mask_mt)) :
           /\ mask_prompt' = p
           /\ llm_call' = NaiveMindReasoner_forward(attention_mask_mt, mask_label, p, sort_ties)
    /\ fw_class' = "NaiveMindReasoner"
    /\ UNCHANGED <<attention_mask_mt, mask_label, sort_ties, sqVars, PEFT_AVAILABLE,
                   ctorVars, trVars, tlVars, evVars>>

FwNext == MindForward \/ NaiveForward

SpecForward == FwInit /\ [][FwNext]_vars

\* C6: whatever prompt NaiveMindReasoner.forward is called with, it hands
\* the LLM the embeddings, attention mask and labels that
\* MindReasoner.forward hands it for the same MT inputs, labels and label
\* mask when called with input_ids_prompt=None.
C6_NaiveIsMindWithoutPrompt ==
    (fw_class = "NaiveMindReasoner") =>
        llm_call = MindReasoner_forward(attention_mask_mt, mask_label, None, sort_ties)

\* a training call of the naive forward with a prompt that has a real token
C6_Witness ==
    /\ fw_class = "NaiveMindReasoner"
    /\ mask_label # None
    /\ mask_prompt # None
    /\ \E r \in 1..Len(mask_prompt) : mask_prompt[r][PromptLen] = 1
    /\ llm_call.fn = "forward"
    /\ \E r \in 1..Len(attention_mask_mt) : attention_mask_mt[r][1] = 0


\* the entries of one row at its unmasked positions, left to right
RECURSIVE Unmasked(_, _)
Unmasked(row, mrow) ==
    IF row = <<>> THEN <<>>
    ELSE (IF Head(mrow) = 1 THEN <<Head(row)>> ELSE <<>>)
         \o Unmasked(Tail(row), Tail(mrow))

\* what row r of the LLM input is to hold at its unmasked positions
ExpectedUnmasked(r) ==
    LET bs == Len(attention_mask_mt)
    IN  bos_embedding(bs)[r]
        \o Unmasked(mt_hidden_state(bs)[r], attention_mask_mt[r])
        \o end_boundary(bs)[r]
        \o (IF fw_class = "MindReasoner" /\ mask_prompt # None
            THEN Unmasked(llm_embedding_layer(input_ids_prompt(bs))[r], mask_prompt[r])
            ELSE <<>>)
        \o (IF mask_label # None
            THEN Unmasked(llm_embedding_layer(labels_in(bs))[r], mask_label[r])
            ELSE <<>>)

\* C16: in every row of the LLM input that forward of either class
\* builds, the unmasked positions hold, left to right, the BOS embedding,
\* the mapped states of the row's unmasked MT tokens in their original
\* order, the end-boundary embedding, the unmasked prompt tokens
\* (MindReasoner called with a prompt only) and the unmasked label tokens
\* (training only); every row has at least two unmasked positions.
C16_UnmaskedOrder ==
    (fw_class # "none") =>
        \A r \in 1..Len(attention_mask_mt) :
            LET got == Unmasked(llm_call.inputs_embeds[r], llm_call.attention_mask[r])
            IN  /\ got = ExpectedUnmasked(r)
                /\ Len(got) >= 2
                /\ got[1] = bos_embedding(1)[1][1]
                /\ SumSeq(llm_call.attention_mask[r]) = Len(got)

\* a training call of MindReasoner.forward with a prompt, on a batch of two
\* rows: one with a padded MT token ahead of a real one, a real prompt
\* token and a real label token, the other with one more real MT token, so
\* that padding is moved and a padding column stays in the first row
C16_Witness ==
    /\ fw_class = "MindReasoner"
    /\ llm_call.fn = "forward"
    /\ mask_prompt # None
    /\ Len(attention_mask_mt) = 2
    /\ attention_mask_mt[1] = <<0, 1>>
    /\ attention_mask_mt[2] = <<1, 1>>
    /\ mask_prompt[1][PromptLen] = 1
    /\ mask_label[1][LabelLen] = 1
    /\ llm_call.attention_mask[1][1] = 0
    /\ Len(Unmasked(llm_call.inputs_embeds[2], llm_call.attention_mask[2])) >= 4


(***************************************************************************)
(* The constructors.  A model object is its parameters, each with its      *)
(* requires_grad flag, the parameters encoder_mt reaches, and whether      *)
(* model_llm is wrapped by get_peft_model.  Parameters are named by the    *)
(* module that owns them.                                                  *)
(***************************************************************************)
\* AutoModel.from_pretrained(mt_path).named_parameters(): an encoder-only
\* or decoder-only model ('bert' or 'GPT' in mt_path), else encoder-decoder
MtParams(mt_path) ==
    IF mt_path \in {"bert", "GPT"}
    THEN {"mt.embeddings", "mt.layers"}
    ELSE {"mt.shared", "mt.encoder.layers", "mt.decoder.layers"}

\* if 'bert' in mt_path or 'GPT' in mt_path: encoder_mt = model_mt
\* else: encoder_mt = model_mt.get_encoder()
EncoderMtParams(mt_path) ==
    IF mt_path \in {"bert", "GPT"}
    THEN MtParams(mt_path)
    ELSE {"mt.shared", "mt.encoder.layers"}

\* the linear projections of the LLM that LoRA can target
LlmProjections == {"q_proj", "k_proj", "v_proj"}

\* AutoModelForCausalLM.from_pretrained(llm_path).named_parameters()
LlmParams == {"llm.embed_tokens", "llm.lm_head"} \cup {"llm." \o m : m \in LlmProjections}

\* Mapping(d_model, hidden_size).parameters(): the two nn.Linear of MLP and
\* end_boundary = nn.Parameter(..., requires_grad=True)
MappingParams ==
    {"mapping.mlp.linear1.weight", "mapping.mlp.linear1.bias",
     "mapping.mlp.linear2.weight", "mapping.mlp.linear2.bias",
     "mapping.end_boundary"}

\* the adapter matrices get_peft_model adds to the targeted projections
LoraParams(target_modules) ==
    UNION {{"llm." \o m \o ".lora_A", "llm." \o m \o ".lora_B"} : m \in target_modules}

\* a freshly loaded or created module: every parameter requires grad
fresh(params) == [p \in params |-> TRUE]

freeze_skipped(requires_grad, params) == requires_grad

\* for name, parameter in module.named_parameters():
\*     parameter.requires_grad = False
freeze(requires_grad, params) ==
    [p \in DOMAIN requires_grad |-> IF p \in params THEN FALSE ELSE requires_grad[p]]

\* f and g joined, for disjoint domains
Join(f, g) == [p \in DOMAIN f \cup DOMAIN g |-> IF p \in DOMAIN f THEN f[p] ELSE g[p]]

\* get_peft_model(model_llm, LoraConfig(bias="none", task_type="CAUSAL_LM",
\* target_modules=...)): the adapter matrices are added and are trainable,
\* every other parameter of the wrapped model is frozen
get_peft_model(requires_grad, target_modules) ==
    Join(freeze(requires_grad, LlmParams), fresh(LoraParams(target_modules)))

inject_lora_never_raises(obj, use_lora, peft, target_modules) ==
    IF use_lora /\ peft
    THEN [raised |-> "none", use_lora |-> use_lora, peft_wrapped |-> TRUE,
          encoder_mt |-> obj.encoder_mt,
          requires_grad |-> get_peft_model(obj.requires_grad, target_modules)]
    ELSE [raised |-> "none", use_lora |-> use_lora, peft_wrapped |-> FALSE,
          encoder_mt |-> obj.encoder_mt, requires_grad |-> obj.requires_grad]

\* step 4 of both constructors: if self.use_lora and PEFT_AVAILABLE: ...
\* elif self.use_lora and not PEFT_AVAILABLE: raise ImportError
inject_lora(obj, use_lora, peft, target_modules) ==
    IF use_lora /\ peft
    THEN [raised |-> "none", use_lora |-> use_lora, peft_wrapped |-> TRUE,
          encoder_mt |-> obj.encoder_mt,
          requires_grad |-> get_peft_model(obj.requires_grad, target_modules)]
    ELSE IF use_lora /\ ~peft
    THEN [raised |-> "ImportError", use_lora |-> use_lora, peft_wrapped |-> FALSE,
          encoder_mt |-> obj.encoder_mt, requires_grad |-> obj.requires_grad]
    ELSE [raised |-> "none", use_lora |-> use_lora, peft_wrapped |-> FALSE,
          encoder_mt |-> obj.encoder_mt, requires_grad |-> obj.requires_grad]

\* steps 1 to 3 of both constructors
load_and_freeze(mt_path) ==
    LET mt      == freeze(fresh(MtParams(mt_path)), MtParams(mt_path))
        llm     == freeze(fresh(LlmParams), LlmParams)
        mapping == fresh(MappingParams)
    IN  [encoder_mt |-> EncoderMtParams(mt_path),
         requires_grad |-> Join(Join(mt, llm), mapping)]

\* MindReasoner.__init__: LoRA always targets q_proj and v_proj
MindReasoner_init(mt_path, use_lora, peft) ==
    inject_lora(load_and_freeze(mt_path), use_lora, peft, {"q_proj", "v_proj"})

\* NaiveMindReasoner.__init__: target_modules is an argument
NaiveMindReasoner_init(mt_path, use_lora, peft, target_modules) ==
    inject_lora(load_and_freeze(mt_path), use_lora, peft, target_modules)

(***************************************************************************)
(* Specification SpecCtor: one construction of either class.               *)
(***************************************************************************)
MtPaths == {"bert", "GPT", "seq2seq"}

TargetModuleArgs == SUBSET LlmProjections \ {{}}

CtorInit ==
    /\ SqIdle /\ FwIdle /\ TrIdle /\ TlIdle /\ EvIdle
    /\ PEFT_AVAILABLE \in BOOLEAN
    /\ \/ ctor_args \in [class : {"MindReasoner"}, mt_path : MtPaths,
                         use_lora : BOOLEAN, target_modules : {{"q_proj", "v_proj"}}]
       \/ ctor_args \in [class : {"NaiveMindReasoner"}, mt_path : MtPaths,
                         use_lora : BOOLEAN, target_modules : TargetModuleArgs]
    /\ ctor_result = NoValue

Construct ==
    /\ ctor_result = NoValue
    /\ ctor_result' =
           IF ctor_args.class = "MindReasoner"
           THEN MindReasoner_init(ctor_args.mt_path, ctor_args.use_lora, PEFT_AVAILABLE)
           ELSE NaiveMindReasoner_init(ctor_args.mt_path, ctor_args.use_lora,
                                       PEFT_AVAILABLE, ctor_args.target_modules)
    /\ UNCHANGED <<ctor_args, PEFT_AVAILABLE, sqVars, fwVars, trVars, tlVars, evVars>>

CtorNext == Construct

SpecCtor == CtorInit /\ [][CtorNext]_vars

\* C3: right after a construction with use_lora=False every parameter of
\* the MT model and of the LLM has requires_grad = False and every
\* parameter of the mapping network has requires_grad = True.
C3_FrozenExceptMapping ==
    (ctor_result # NoValue /\ ~ctor_args.use_lora) =>
        /\ ctor_result.raised = "none"
        /\ MtParams(ctor_args.mt_path) \cup LlmParams \cup MappingParams
             = DOMAIN ctor_result.requires_grad
        /\ \A p \in MtParams(ctor_args.mt_path) \cup LlmParams :
               ~ctor_result.requires_grad[p]
        /\ \A p \in MappingParams : ctor_result.requires_grad[p]

C3_Witness ==
    /\ ctor_result # NoValue
    /\ ~ctor_args.use_lora
    /\ ctor_args.class = "NaiveMindReasoner"
    /\ ctor_args.mt_path = "seq2seq"

\* C5: a construction with use_lora=True raises ImportError when peft could
\* not be imported; with use_lora=False it never raises, whatever
\* PEFT_AVAILABLE is, and leaves the LLM without adapter wrapping.
C5_ImportErrorOnlyForLora ==
    ctor_result # NoValue =>
        /\ (ctor_args.use_lora /\ ~PEFT_AVAILABLE) => ctor_result.raised = "ImportError"
        /\ ~ctor_args.use_lora =>
               /\ ctor_result.raised = "none"
               /\ ~ctor_result.peft_wrapped
               /\ DOMAIN ctor_result.requires_grad \cap LoraParams(LlmProjections) = {}

C5_Witness ==
    /\ ctor_result # NoValue
    /\ ctor_args.use_lora
    /\ ~PEFT_AVAILABLE
    /\ ctor_result.raised = "ImportError"


(***************************************************************************)
(* main() of run_training_naive_reasoning.py, statement by statement.      *)
(***************************************************************************)
\* "sub in task" for the task names of the model
Contains(t, sub) ==
    CASE sub = "math" -> t \in {"math"}
      [] sub = "nli"  -> t \in {"nli", "xnli"}
      [] sub = "csqa" -> t \in {"csqa", "x-csqa"}
      [] sub = "mgsm" -> t \in {"mgsm"}
      [] sub = "msvamp" -> t \in {"msvamp"}

read_dataset_unknown_as_reasoning(stage, t) ==
    IF stage = "mapping"
    THEN [raised |-> "none", task |-> "translation",
          train_set |-> IF Contains(t, "math") THEN "read_lego"
                        ELSE IF Contains(t, "nli") THEN "read_americas_lego"
                        ELSE "read_lego"]
    ELSE [raised |-> "none", task |-> t,
          train_set |-> IF Contains(t, "math") THEN "read_math_train"
                        ELSE IF Contains(t, "nli") THEN "read_americas_xnli_train"
                        ELSE IF Contains(t, "csqa") THEN "read_x_csqa_train"
                        ELSE "read_xnli_train"]

\* 2) Load Dataset Based on Stage: the reader called and the new value of
\* task, or ValueError for an unknown stage
read_dataset(stage, t) ==
    IF stage = "mapping"
    THEN [raised |-> "none", task |-> "translation",
          train_set |-> IF Contains(t, "math") THEN "read_lego"
                        ELSE IF Contains(t, "nli") THEN "read_americas_lego"
                        ELSE "read_lego"]
    ELSE IF stage \in {"augmentation", "reasoning"}
    THEN [raised |-> "none", task |-> t,
          train_set |-> IF Contains(t, "math") THEN "read_math_train"
                        ELSE IF Contains(t, "nli") THEN "read_americas_xnli_train"
                        ELSE IF Contains(t, "csqa") THEN "read_x_csqa_train"
                        ELSE "read_xnli_train"]
    ELSE [raised |-> "ValueError", task |-> t, train_set |-> "none"]

\* Python's a // b for b # 0 (the floor of the quotient)
FloorDiv(a, b) == IF b > 0 THEN a \div b ELSE (0 - a) \div (0 - b)

hyperparameters_no_assert(tbs, micro, gpus) ==
    IF micro * gpus = 0
    THEN [raised |-> "ZeroDivisionError", gradient_accumulation |-> 0, ds_config |-> NoValue]
    ELSE LET ga == FloorDiv(tbs, micro * gpus)
         IN  [raised |-> "none", gradient_accumulation |-> ga,
              ds_config |-> [train_batch_size |-> tbs,
                             train_micro_batch_size_per_gpu |-> micro,
                             gradient_accumulation_steps |-> ga]]

\* gradient_accumulation = train_batch_size // (micro * gpu_num)
\* assert micro * gpu_num * gradient_accumulation == train_batch_size
\* ds_config = get_train_ds_config(train_batch_size, micro, lr, gradient_accumulation)
hyperparameters(tbs, micro, gpus) ==
    IF micro * gpus = 0
    THEN [raised |-> "ZeroDivisionError", gradient_accumulation |-> 0, ds_config |-> NoValue]
    ELSE LET ga == FloorDiv(tbs, micro * gpus)
         IN  IF micro * gpus * ga # tbs
             THEN [raised |-> "AssertionError", gradient_accumulation |-> ga,
                   ds_config |-> NoValue]
             ELSE [raised |-> "none", gradient_accumulation |-> ga,
                   ds_config |-> [train_batch_size |-> tbs,
                                  train_micro_batch_size_per_gpu |-> micro,
                                  gradient_accumulation_steps |-> ga]]

\* if stage_name != 'mapping' and args.init_checkpoint is None:
\*     args.init_checkpoint = f'./outputs/{save_name}/{task}/mapping/pytorch_model.bin'
fallback_checkpoint(stage, checkpoint, name, t) ==
    IF stage # "mapping" /\ checkpoint = NoPath
    THEN [save_name |-> name, task |-> t, stage |-> "mapping", file |-> "pytorch_model.bin"]
    ELSE checkpoint

freeze_for_stage_skipped(obj, stage) == obj

\* if stage_name == 'reasoning': freeze model.mapping and model.encoder_mt
freeze_for_stage(obj, stage) ==
    IF stage = "reasoning"
    THEN [obj EXCEPT !.requires_grad =
              freeze(freeze(obj.requires_grad, MappingParams), obj.encoder_mt)]
    ELSE obj

\* parameters = filter(lambda p: p.requires_grad, model.parameters())
trainable(obj) == {p \in DOMAIN obj.requires_grad : obj.requires_grad[p]}

after_eval_saves_on_tie(rank, best, ppl) ==
    IF rank = 0 /\ ppl <= best
    THEN [best_perplexity |-> ppl, saved |-> 1]
    ELSE [best_perplexity |-> best, saved |-> 0]

\* if global_rank == 0 and perplexity < best_perplexity:
\*     best_perplexity = perplexity; save_reasoner_model(...)
after_eval(rank, best, ppl) ==
    IF rank = 0 /\ ppl < best
    THEN [best_perplexity |-> ppl, saved |-> 1]
    ELSE [best_perplexity |-> best, saved |-> 0]

eval_step == 10000

eval_due_at_every_step(count) == count > 0

\* if step_count % eval_step == 0 and step_count > 0
eval_due(count) == count % eval_step = 0 /\ count > 0

(***************************************************************************)
(* Specification SpecTrain: one run of the training script, on one rank.   *)
(***************************************************************************)
StageArgs == {"mapping", "augmentation", "reasoning", "pretraining"}

TaskArgs == {"math", "xnli", "csqa", "pawsx"}

UserPath == [save_name |-> "elsewhere", task |-> "elsewhere", stage |-> "elsewhere",
             file |-> "user.bin"]

TrainTargetModules == {{"q_proj", "v_proj"}, {"q_proj", "k_proj", "v_proj"}}

TrInit ==
    /\ SqIdle /\ FwIdle /\ CtorIdle /\ TlIdle /\ EvIdle
    /\ PEFT_AVAILABLE \in BOOLEAN
    /\ tr_pc = "setup" /\ raised = "none"
    /\ stage_name \in StageArgs
    /\ task \in TaskArgs
    /\ save_name = "NaiveMindReasoner"
    /\ checkpoint_given \in BOOLEAN
    /\ init_checkpoint = IF checkpoint_given THEN UserPath ELSE NoPath
    /\ output_model_path_base = NoPath /\ train_set = "none"
    /\ train_batch_size = 0 /\ train_micro_batch_size_per_gpu = 0 /\ gpu_num = 0
    /\ gradient_accumulation = 0 /\ ds_config = NoValue
    /\ tokenizers_loaded = FALSE /\ model = NoValue /\ loaded_checkpoint = NoPath
    /\ model_parameters = {} /\ ds_initialized = FALSE
    /\ global_rank = 0 /\ best_perplexity = 0 /\ epoch_num = 0 /\ steps_per_epoch = 0
    /\ epoch = 0 /\ step_count = 0 /\ train_steps = 0 /\ evals = 0 /\ saves = 0
    /\ perplexity = 0 /\ lowest_evaluated = 0

TrOther == <<sqVars, fwVars, PEFT_AVAILABLE, ctorVars, tlVars, evVars>>

\* 1) Basic Setup: the output paths, made from task as given
TrSetup ==
    /\ tr_pc = "setup"
    /\ output_model_path_base' =
           [save_name |-> save_name, task |-> task, stage |-> stage_name, file |-> ""]
    /\ tr_pc' = "load_dataset"
    /\ UNCHANGED <<raised, trArgs, task, init_checkpoint, train_set, trHyper, trModel,
                   trLoop, TrOther>>

\* 2) Load Dataset Based on Stage
TrLoadDataset ==
    /\ tr_pc = "load_dataset"
    /\ LET r == read_dataset(stage_name, task)
       IN  /\ raised' = r.raised
           /\ task' = r.task
           /\ train_set' = r.train_set
           /\ tr_pc' = IF r.raised = "none" THEN "hyperparameters" ELSE "raised"
    /\ UNCHANGED <<trArgs, init_checkpoint, output_model_path_base, trHyper, trModel,
                   trLoop, TrOther>>

\* 3) Training Hyperparameters
TrHyperparameters ==
    /\ tr_pc = "hyperparameters"
    /\ \E tbs \in 0..MaxTrainBatch, micro \in -1..MaxMicroBatch, gpus \in 0..MaxGpu :
           LET r == hyperparameters(tbs, micro, gpus)
           IN  /\ train_batch_size' = tbs
               /\ train_micro_batch_size_per_gpu' = micro
               /\ gpu_num' = gpus
               /\ gradient_accumulation' = r.gradient_accumulation
               /\ ds_config' = r.ds_config
               /\ raised' = r.raised
               /\ tr_pc' = IF r.raised = "none" THEN "tokenizers" ELSE "raised"
    /\ epoch_num' \in 0..MaxEpochs
    /\ UNCHANGED <<trArgs, trSetup, trModel, global_rank, best_perplexity,
                   steps_per_epoch, epoch, step_count, train_steps, evals, saves,
                   perplexity, lowest_evaluated, TrOther>>

\* 4) Tokenizers
TrTokenizers ==
    /\ tr_pc = "tokenizers"
    /\ tokenizers_loaded' = TRUE
    /\ tr_pc' = "build_model"
    /\ UNCHANGED <<raised, trArgs, trSetup, trHyper, model, loaded_checkpoint,
                   model_parameters, ds_initialized, trLoop, TrOther>>

\* 5) Initialize NaiveMindReasoner
TrBuildModel ==
    /\ tr_pc = "build_model"
    /\ init_checkpoint' = fallback_checkpoint(stage_name, init_checkpoint, save_name, task)
    /\ \E mt_path \in MtPaths, target_modules \in TrainTargetModules :
           LET use_lora == (stage_name = "reasoning")
               obj == NaiveMindReasoner_init(mt_path, use_lora, PEFT_AVAILABLE,
                                             target_modules)
           IN  /\ raised' = obj.raised
               /\ model' = IF obj.raised = "none" THEN obj ELSE NoValue
               /\ tr_pc' = IF obj.raised = "none" THEN "load_checkpoint" ELSE "raised"
    /\ UNCHANGED <<trArgs, task, output_model_path_base, train_set, trHyper,
                   tokenizers_loaded, loaded_checkpoint, model_parameters,
                   ds_initialized, trLoop, TrOther>>

\* (Re)Load mapping checkpoint if provided
TrLoadCheckpoint ==
    /\ tr_pc = "load_checkpoint"
    /\ loaded_checkpoint' = init_checkpoint
    /\ tr_pc' = "freeze"
    /\ UNCHANGED <<raised, trArgs, trSetup, trHyper, tokenizers_loaded, model,
                   model_parameters, ds_initialized, trLoop, TrOther>>

\* If stage 3, freeze mapping + MT encoder
TrFreeze ==
    /\ tr_pc = "freeze"
    /\ model' = freeze_for_stage(model, stage_name)
    /\ tr_pc' = "deepspeed"
    /\ UNCHANGED <<raised, trArgs, trSetup, trHyper, tokenizers_loaded,
                   loaded_checkpoint, model_parameters, ds_initialized, trLoop, TrOther>>

\* 6) DeepSpeed Initialization, samplers and loaders
TrDeepSpeed ==
    /\ tr_pc = "deepspeed"
    /\ model_parameters' = trainable(model)
    /\ ds_initialized' = TRUE
    /\ steps_per_epoch' \in 0..MaxSteps
    /\ tr_pc' = "initial_eval"
    /\ UNCHANGED <<raised, trArgs, trSetup, trHyper, tokenizers_loaded, model,
                   loaded_checkpoint, global_rank, best_perplexity, epoch_num, epoch,
                   step_count, train_steps, evals, saves, perplexity,
                   lowest_evaluated, TrOther>>

\* Evaluate initial perplexity
TrInitialEval ==
    /\ tr_pc = "initial_eval"
    /\ global_rank' \in 0..MaxRank
    /\ best_perplexity' \in 1..MaxPpl
    /\ lowest_evaluated' = best_perplexity'
    /\ evals' = evals + 1
    /\ epoch' = 0
    /\ tr_pc' = "epoch"
    /\ UNCHANGED <<raised, trArgs, trSetup, trHyper, trModel, epoch_num,
                   steps_per_epoch, step_count, train_steps, saves, perplexity,
                   TrOther>>

\* for epoch in range(epoch_num): ... step_count = 0; after the last epoch
\* "Training completed"
TrEpoch ==
    /\ tr_pc = "epoch"
    /\ IF epoch < epoch_num
       THEN step_count' = 0 /\ tr_pc' = "batch"
       ELSE step_count' = step_count /\ tr_pc' = "done"
    /\ UNCHANGED <<raised, trArgs, trSetup, trHyper, trModel, global_rank,
                   best_perplexity, epoch_num, steps_per_epoch, epoch, train_steps,
                   evals, saves, perplexity, lowest_evaluated, TrOther>>

\* one batch of train_dl: forward, backward, step, and the evaluation every
\* eval_step steps
TrBatch ==
    /\ tr_pc = "batch"
    /\ step_count < steps_per_epoch
    /\ train_steps' = train_steps + 1
    /\ step_count' = step_count + 1
    /\ IF eval_due(step_count + 1)
       THEN \E ppl \in 1..MaxPpl :
                LET r == after_eval(global_rank, best_perplexity, ppl)
                IN  /\ perplexity' = ppl
                    /\ lowest_evaluated' = Min(lowest_evaluated, ppl)
                    /\ best_perplexity' = r.best_perplexity
                    /\ saves' = saves + r.saved
                    /\ evals' = evals + 1
       ELSE UNCHANGED <<best_perplexity, saves, evals, perplexity, lowest_evaluated>>
    /\ UNCHANGED <<tr_pc, raised, trArgs, trSetup, trHyper, trModel, global_rank,
                   epoch_num, steps_per_epoch, epoch, TrOther>>

\* End of epoch evaluation
TrEpochEnd ==
    /\ tr_pc = "batch"
    /\ step_count = steps_per_epoch
    /\ \E ppl \in 1..MaxPpl :
           LET r == after_eval(global_rank, best_perplexity, ppl)
           IN  /\ perplexity' = ppl
               /\ lowest_evaluated' = Min(lowest_evaluated, ppl)
               /\ best_perplexity' = r.best_perplexity
               /\ saves' = saves + r.saved
               /\ evals' = evals + 1
    /\ epoch' = epoch + 1
    /\ tr_pc' = "epoch"
    /\ UNCHANGED <<raised, trArgs, trSetup, trHyper, trModel, global_rank, epoch_num,
                   steps_per_epoch, step_count, train_steps, TrOther>>

TrNext ==
    \/ TrSetup \/ TrLoadDataset \/ TrHyperparameters \/ TrTokenizers \/ TrBuildModel
    \/ TrLoadCheckpoint \/ TrFreeze \/ TrDeepSpeed \/ TrInitialEval \/ TrEpoch
    \/ TrBatch \/ TrEpochEnd

SpecTrain == TrInit /\ [][TrNext]_vars


(***************************************************************************)
(* Specification SpecTrainLong: the training loop of a run that got        *)
(* through deepspeed.initialize (stage mapping, task math, one GPU), with  *)
(* train loaders long enough for the evaluation every eval_step steps.     *)
(* The statements of the loop follow one another without waiting for       *)
(* anything, hence the weak fairness.                                      *)
(***************************************************************************)
\* the runs: <<epoch_num, len(train_dl)>>
LongRuns == {<<2, eval_step - 1>>, <<2, eval_step>>, <<1, 2 * eval_step>>}

TrLongInit ==
    /\ SqIdle /\ FwIdle /\ CtorIdle /\ TlIdle /\ EvIdle
    /\ PEFT_AVAILABLE = FALSE
    /\ tr_pc = "initial_eval" /\ raised = "none"
    /\ stage_name = "mapping"
    /\ task = read_dataset("mapping", "math").task
    /\ save_name = "NaiveMindReasoner"
    /\ checkpoint_given = FALSE
    /\ init_checkpoint = fallback_checkpoint("mapping", NoPath, save_name, task)
    /\ output_model_path_base =
           [save_name |-> save_name, task |-> "math", stage |-> "mapping", file |-> ""]
    /\ train_set = read_dataset("mapping", "math").train_set
    /\ train_batch_size = 1 /\ train_micro_batch_size_per_gpu = 1 /\ gpu_num = 1
    /\ gradient_accumulation = hyperparameters(1, 1, 1).gradient_accumulation
    /\ ds_config = hyperparameters(1, 1, 1).ds_config
    /\ tokenizers_loaded = TRUE
    /\ model = freeze_for_stage(
                   NaiveMindReasoner_init("seq2seq", FALSE, FALSE, {"q_proj", "v_proj"}),
                   "mapping")
    /\ loaded_checkpoint = NoPath
    /\ model_parameters = trainable(model)
    /\ ds_initialized = TRUE
    /\ \E run \in LongRuns : epoch_num = run[1] /\ steps_per_epoch = run[2]
    /\ global_rank = 0 /\ best_perplexity = 0
    /\ epoch = 0 /\ step_count = 0 /\ train_steps = 0 /\ evals = 0 /\ saves = 0
    /\ perplexity = 0 /\ lowest_evaluated = 0

TrLoopNext == TrInitialEval \/ TrEpoch \/ TrBatch \/ TrEpochEnd

SpecTrainLong == TrLongInit /\ [][TrLoopNext]_vars /\ WF_vars(TrLoopNext)

\* the evaluations of one epoch of S steps: one every eval_step steps and
\* one at the end
EvalsPerEpoch == steps_per_epoch \div eval_step + 1

HandedToDeepSpeed == ds_initialized

\* every adapter matrix LoRA can add to the LLM
AllLoraParams == LoraParams(LlmProjections)

\* C4: when the trainable parameters are handed to deepspeed.initialize, in
\* stage mapping or augmentation the LLM carries no LoRA adapter and the
\* trainable parameters are exactly those of the mapping network; in stage
\* reasoning the LLM carries LoRA adapters, every parameter of the mapping
\* network and of the MT encoder is frozen, and the trainable parameters are
\* adapter matrices only (and there are some).
C4_TrainableAtDeepSpeed ==
    HandedToDeepSpeed =>
        /\ stage_name \in {"mapping", "augmentation"} =>
               /\ ~model.peft_wrapped
               /\ model_parameters = MappingParams
        /\ stage_name = "reasoning" =>
               /\ model.peft_wrapped
               /\ \A p \in MappingParams \cup model.encoder_mt : ~model.requires_grad[p]
               /\ model_parameters # {}
               /\ model_parameters \subseteq AllLoraParams

C4_Witness ==
    /\ HandedToDeepSpeed
    /\ stage_name = "reasoning"
    /\ model.peft_wrapped
    /\ model_parameters = LoraParams({"q_proj", "v_proj"})

\* C12: a step of the training run that saves the model is a step on rank
\* 0 that has just evaluated a perplexity strictly lower than every
\* perplexity evaluated before it in the run, the initial one included (so
\* an evaluation that ties the lowest so far saves nothing); and once set
\* by the initial evaluation, best_perplexity never increases.
C12_SaveOnlyOnNewBest ==
    [][/\ saves' # saves =>
              /\ saves' = saves + 1
              /\ global_rank = 0
              /\ evals >= 1 /\ evals' = evals + 1
              /\ perplexity' < lowest_evaluated
       /\ (evals >= 1 /\ evals' # evals /\ perplexity' >= lowest_evaluated) =>
              saves' = saves
       /\ evals >= 1 => best_perplexity' <= best_perplexity]_vars

\* the first save of a run, at the periodic evaluation of the second
\* epoch, after three evaluations that saved nothing
C12_Witness ==
    /\ global_rank = 0
    /\ tr_pc = "batch" /\ epoch = 1 /\ step_count = eval_step
    /\ evals = 4
    /\ saves = 1
    /\ perplexity = best_perplexity
    /\ perplexity = lowest_evaluated

\* C13: on every rank, the best perplexity reported when training is
\* completed is the minimum over the initial evaluation and all later
\* evaluations of the run.
C13_ReportedBestIsMinimum ==
    tr_pc = "done" => best_perplexity = lowest_evaluated

\* the stage whose checkpoint a stage continues from
PrevStage(stage) == IF stage = "reasoning" THEN "augmentation" ELSE "mapping"

CheckpointStepDone ==
    tr_pc \in {"freeze", "deepspeed", "initial_eval", "epoch", "batch", "done"}

\* C7: without --init_checkpoint, stage augmentation initialises the mapping
\* network from the mapping-stage checkpoint and stage reasoning from the
\* augmentation-stage checkpoint of the same save_name and task, and stage
\* mapping loads no checkpoint.
C7_CheckpointOfPrecedingStage ==
    (CheckpointStepDone /\ ~checkpoint_given) =>
        IF stage_name = "mapping"
        THEN loaded_checkpoint = NoPath
        ELSE /\ loaded_checkpoint # NoPath
             /\ loaded_checkpoint.save_name = save_name
             /\ loaded_checkpoint.task = output_model_path_base.task
             /\ loaded_checkpoint.stage = PrevStage(stage_name)

ValidStages == {"mapping", "augmentation", "reasoning"}

\* C8: with a stage_name other than mapping, augmentation or reasoning the
\* run never gets past the dataset step, where it stops with ValueError: no
\* dataset has been read, no tokenizer or model loaded, no checkpoint loaded
\* or saved and no training step run.
C8_UnknownStageRaises ==
    stage_name \notin ValidStages =>
        /\ \/ tr_pc \in {"setup", "load_dataset"} /\ raised = "none"
           \/ tr_pc = "raised" /\ raised = "ValueError"
        /\ train_set = "none"
        /\ ~tokenizers_loaded
        /\ model = NoValue
        /\ loaded_checkpoint = NoPath
        /\ saves = 0
        /\ train_steps = 0

C8_Witness ==
    /\ stage_name \notin ValidStages
    /\ tr_pc = "raised"
    /\ raised = "ValueError"

\* the hyperparameters step has run
HyperparametersDone ==
    /\ tr_pc \notin {"idle", "setup", "load_dataset", "hyperparameters"}
    /\ raised # "ValueError"

\* q is the floor of a / b, for b # 0
IsFloor(q, a, b) ==
    IF b > 0 THEN b * q <= a /\ a < b * (q + 1)
    ELSE b * q >= a /\ a > b * (q + 1)

PerStepBatch == train_micro_batch_size_per_gpu * gpu_num

\* C9 as stated: gradient_accumulation is the floor of train_batch_size /
\* (micro * gpu_num); the DeepSpeed configuration is built only if micro *
\* gpu_num * gradient_accumulation = train_batch_size, and then
\* gradient_accumulation >= 1 for a positive train_batch_size; otherwise the
\* run stops with an assertion failure before tokenizers or model are loaded.
C9_AsStated ==
    HyperparametersDone =>
        IF ds_config # NoValue
        THEN /\ PerStepBatch # 0
             /\ IsFloor(gradient_accumulation, train_batch_size, PerStepBatch)
             /\ PerStepBatch * gradient_accumulation = train_batch_size
             /\ train_batch_size > 0 => gradient_accumulation >= 1
        ELSE /\ raised = "AssertionError"
             /\ ~tokenizers_loaded
             /\ model = NoValue

\* C9: when micro * gpu_num is not 0, gradient_accumulation is the floor of
\* train_batch_size / (micro * gpu_num) and the DeepSpeed configuration is
\* built exactly if micro * gpu_num * gradient_accumulation =
\* train_batch_size (so gradient_accumulation >= 1 when train_batch_size and
\* micro * gpu_num are both positive), the run stopping with AssertionError
\* otherwise; when micro * gpu_num is 0 the run stops with
\* ZeroDivisionError; a run stopped here has loaded no tokenizer or model.
C9_GradientAccumulation ==
    HyperparametersDone =>
        /\ PerStepBatch = 0 => ds_config = NoValue /\ raised = "ZeroDivisionError"
        /\ PerStepBatch # 0 =>
               /\ IsFloor(gradient_accumulation, train_batch_size, PerStepBatch)
               /\ ds_config # NoValue <=>
                      PerStepBatch * gradient_accumulation = train_batch_size
               /\ ds_config = NoValue => raised = "AssertionError"
               /\ (ds_config # NoValue /\ train_batch_size > 0 /\ PerStepBatch > 0) =>
                      gradient_accumulation >= 1
        /\ ds_config # NoValue =>
               /\ ds_config.train_batch_size = train_batch_size
               /\ ds_config.train_micro_batch_size_per_gpu = train_micro_batch_size_per_gpu
               /\ ds_config.gradient_accumulation_steps = gradient_accumulation
        /\ ds_config = NoValue => ~tokenizers_loaded /\ model = NoValue

C9_Witness ==
    /\ tr_pc = "raised"
    /\ raised = "AssertionError"
    /\ train_batch_size > 0
    /\ PerStepBatch > 0
    /\ PerStepBatch * gradient_accumulation < train_batch_size


(***************************************************************************)
(* translate_sentences_in_batches (datas/nllb_translation.py and           *)
(* datas/americas_blilingual_pairs/bilingual_pairs_extraction.py, the same *)
(* text in both).  A sentence is a number; its translation is a pair.      *)
(***************************************************************************)
\* what the model and tokenizer.batch_decode give for one sentence
Translation(s) == <<"translated", s>>

batch_slice_overlapping(list, start, size) ==
    SubSeq(list, start + 1, Min(start + size + 1, Len(list)))

\* sentences[i:i + batch_size], start being the 0-based i
batch_slice(list, start, size) ==
    SubSeq(list, start + 1, Min(start + size, Len(list)))

\* tokenizer(batch), model.generate, tokenizer.batch_decode: one output per
\* row of the batch
generate(batch) == [k \in 1..Len(batch) |-> Translation(batch[k])] \o <<>>

(***************************************************************************)
(* Specification SpecTranslate: one call of the function.                  *)
(***************************************************************************)
SentenceLists == UNION {[1..n -> 1..MaxSentenceId] : n \in 0..MaxSentences}

TlOther == <<sqVars, fwVars, PEFT_AVAILABLE, ctorVars, trVars, evVars>>

TlInit ==
    /\ SqIdle /\ FwIdle /\ CtorIdle /\ TrIdle /\ EvIdle /\ PEFT_AVAILABLE = FALSE
    /\ sentences \in SentenceLists
    /\ batch_size \in 1..MaxBatchSize
    /\ tl_pc = "loop"
    /\ tl_i = 0
    /\ generate_calls = <<>>
    /\ translated_sentences = <<>>

\* one iteration of "for i in range(0, len(sentences), batch_size)"
TranslateBatch ==
    /\ tl_pc = "loop"
    /\ tl_i < Len(sentences)
    /\ LET batch == batch_slice(sentences, tl_i, batch_size)
       IN  /\ generate_calls' = Append(generate_calls, batch)
           /\ translated_sentences' = translated_sentences \o generate(batch)
    /\ tl_i' = tl_i + batch_size
    /\ UNCHANGED <<sentences, batch_size, tl_pc, TlOther>>

\* range() is exhausted: return translated_sentences
TranslateReturn ==
    /\ tl_pc = "loop"
    /\ tl_i >= Len(sentences)
    /\ tl_pc' = "returned"
    /\ UNCHANGED <<sentences, batch_size, tl_i, generate_calls, translated_sentences,
                   TlOther>>

TlNext == TranslateBatch \/ TranslateReturn

SpecTranslate == TlInit /\ [][TlNext]_vars

\* the smallest number of batches of batch_size that hold n sentences
CeilDiv(n, b) == (n + b - 1) \div b

\* C10: for a list of n sentences and batch_size >= 1 the function calls the
\* model ceil(n / batch_size) times (never for an empty list), on batches
\* that are not empty, hold at most batch_size sentences - exactly
\* batch_size in every one but the last - and joined in order are the input
\* list; it returns n translations, the i-th being the translation of the
\* i-th sentence.
C10_BatchesCoverInOrder ==
    tl_pc = "returned" =>
        /\ Len(generate_calls) = CeilDiv(Len(sentences), batch_size)
        /\ Concat(generate_calls) = sentences
        /\ \A k \in 1..Len(generate_calls) :
               /\ Len(generate_calls[k]) >= 1
               /\ Len(generate_calls[k]) <= batch_size
               /\ k < Len(generate_calls) => Len(generate_calls[k]) = batch_size
        /\ Len(translated_sentences) = Len(sentences)
        /\ \A k \in 1..Len(sentences) :
               translated_sentences[k] = Translation(sentences[k])

C10_Witness ==
    /\ tl_pc = "returned"
    /\ Len(generate_calls) = 2
    /\ Len(generate_calls[2]) < batch_size
    /\ Len(translated_sentences) = Len(sentences)


(***************************************************************************)
(* main() of run_evaluation_reasoner.py, statement by statement.  Its      *)
(* PEFT_AVAILABLE and the one of modeling_mindreasoner.py come from        *)
(* importing the same package, and are one variable here.                  *)
(***************************************************************************)
\* 2) Select Test Set(s) Based on Task: the reader called and the new
\* value of task
select_test_sets(t) ==
    IF Contains(t, "mgsm") THEN [test_sets |-> "read_mgsms", task |-> "math"]
    ELSE IF Contains(t, "nli") THEN [test_sets |-> "read_americas_xnli", task |-> t]
    ELSE IF Contains(t, "msvamp") THEN [test_sets |-> "read_msvamp", task |-> "math"]
    ELSE IF Contains(t, "csqa") THEN [test_sets |-> "read_x_csqa", task |-> t]
    ELSE [test_sets |-> "read_xnli", task |-> t]

\* 4) Prepare DeepSpeed Config: no assertion here
eval_ds_config(tbs, micro, gpus) ==
    IF micro * gpus = 0
    THEN [raised |-> "ZeroDivisionError", ds_config |-> NoValue]
    ELSE [raised |-> "none",
          ds_config |-> [train_batch_size |-> tbs,
                         train_micro_batch_size_per_gpu |-> micro,
                         gradient_accumulation_steps |-> FloorDiv(tbs, micro * gpus)]]

build_eval_model_lora_if_given(mt_path, peft, lora) ==
    MindReasoner_init(mt_path, lora, peft)

\* 5) Build MindReasoner (with LoRA): use_lora=True whatever lora_path is
build_eval_model(mt_path, peft, lora) == MindReasoner_init(mt_path, TRUE, peft)

\* 7) Load LoRA Adapter: what is raised, and whether the adapter is loaded
load_adapter(lora, peft) ==
    IF lora /\ peft THEN [raised |-> "none", adapter_loaded |-> TRUE]
    ELSE IF lora THEN [raised |-> "ImportError", adapter_loaded |-> FALSE]
    ELSE [raised |-> "none", adapter_loaded |-> FALSE]

\* if task == 'math': evaluate_math(...) else: evaluate_classification(...)
evaluator(t) == IF t = "math" THEN "evaluate_math" ELSE "evaluate_classification"

(***************************************************************************)
(* Specification SpecEval: one run of the evaluation script.               *)
(***************************************************************************)
EvalTaskArgs == {"math", "mgsm", "msvamp", "xnli", "csqa", "pawsx"}

EvOther == <<sqVars, fwVars, PEFT_AVAILABLE, ctorVars, trVars, tlVars>>

EvInit ==
    /\ SqIdle /\ FwIdle /\ CtorIdle /\ TrIdle /\ TlIdle
    /\ PEFT_AVAILABLE \in BOOLEAN
    /\ ev_pc = "select_test_sets" /\ ev_raised = "none"
    /\ ev_task_arg \in EvalTaskArgs
    /\ ev_task = ev_task_arg
    /\ lora_path \in BOOLEAN
    /\ init_mapping_checkpoint \in BOOLEAN
    /\ test_sets = "none" /\ ev_ds_config = NoValue /\ ev_model = NoValue
    /\ mapping_loaded = FALSE /\ adapter_loaded = FALSE
    /\ num_test_sets = 0 /\ evaluator_calls = <<>>

\* 1) Basic Setup and 2) Select Test Set(s) Based on Task
EvSelectTestSets ==
    /\ ev_pc = "select_test_sets"
    /\ LET r == select_test_sets(ev_task)
       IN  test_sets' = r.test_sets /\ ev_task' = r.task
    /\ num_test_sets' \in 1..MaxTestSets
    /\ ev_pc' = "ds_config"
    /\ UNCHANGED <<ev_raised, ev_task_arg, lora_path, init_mapping_checkpoint,
                   ev_ds_config, ev_model, mapping_loaded, adapter_loaded,
                   evaluator_calls, EvOther>>

\* 3) Tokenizers and 4) Prepare DeepSpeed Config
EvDsConfig ==
    /\ ev_pc = "ds_config"
    /\ \E tbs \in 0..MaxTrainBatch, micro \in -1..MaxMicroBatch, gpus \in 0..MaxGpu :
           LET r == eval_ds_config(tbs, micro, gpus)
           IN  /\ ev_ds_config' = r.ds_config
               /\ ev_raised' = r.raised
               /\ ev_pc' = IF r.raised = "none" THEN "build_model" ELSE "raised"
    /\ UNCHANGED <<ev_task_arg, ev_task, lora_path, init_mapping_checkpoint, test_sets,
                   ev_model, mapping_loaded, adapter_loaded, num_test_sets,
                   evaluator_calls, EvOther>>

\* 5) Build MindReasoner (with LoRA)
EvBuildModel ==
    /\ ev_pc = "build_model"
    /\ \E mt_path \in MtPaths :
           LET obj == build_eval_model(mt_path, PEFT_AVAILABLE, lora_path)
           IN  /\ ev_raised' = obj.raised
               /\ ev_model' = IF obj.raised = "none" THEN obj ELSE NoValue
               /\ ev_pc' = IF obj.raised = "none" THEN "load_mapping" ELSE "raised"
    /\ UNCHANGED <<ev_task_arg, ev_task, lora_path, init_mapping_checkpoint, test_sets,
                   ev_ds_config, mapping_loaded, adapter_loaded, num_test_sets,
                   evaluator_calls, EvOther>>

\* 6) Load Mapping Checkpoint
EvLoadMapping ==
    /\ ev_pc = "load_mapping"
    /\ mapping_loaded' = init_mapping_checkpoint
    /\ ev_pc' = "load_adapter"
    /\ UNCHANGED <<ev_raised, ev_task_arg, ev_task, lora_path, init_mapping_checkpoint,
                   test_sets, ev_ds_config, ev_model, adapter_loaded, num_test_sets,
                   evaluator_calls, EvOther>>

\* 7) Load LoRA Adapter, model.eval() and 8) Initialize with DeepSpeed
EvLoadAdapter ==
    /\ ev_pc = "load_adapter"
    /\ LET r == load_adapter(lora_path, PEFT_AVAILABLE)
       IN  /\ ev_raised' = r.raised
           /\ adapter_loaded' = r.adapter_loaded
           /\ ev_pc' = IF r.raised = "none" THEN "evaluate" ELSE "raised"
    /\ UNCHANGED <<ev_task_arg, ev_task, lora_path, init_mapping_checkpoint, test_sets,
                   ev_ds_config, ev_model, mapping_loaded, num_test_sets,
                   evaluator_calls, EvOther>>

\* 9) Evaluate: one language of test_sets.items()
EvEvaluateLanguage ==
    /\ ev_pc = "evaluate"
    /\ Len(evaluator_calls) < num_test_sets
    /\ evaluator_calls' = Append(evaluator_calls, evaluator(ev_task))
    /\ UNCHANGED <<ev_pc, ev_raised, ev_task_arg, ev_task, lora_path,
                   init_mapping_checkpoint, test_sets, ev_ds_config, ev_model,
                   mapping_loaded, adapter_loaded, num_test_sets, EvOther>>

\* Summarize
EvSummarize ==
    /\ ev_pc = "evaluate"
    /\ Len(evaluator_calls) = num_test_sets
    /\ ev_pc' = "done"
    /\ UNCHANGED <<ev_raised, ev_task_arg, ev_task, lora_path, init_mapping_checkpoint,
                   test_sets, ev_ds_config, ev_model, mapping_loaded, adapter_loaded,
                   num_test_sets, evaluator_calls, EvOther>>

EvNext ==
    \/ EvSelectTestSets \/ EvDsConfig \/ EvBuildModel \/ EvLoadMapping
    \/ EvLoadAdapter \/ EvEvaluateLanguage \/ EvSummarize

SpecEval == EvInit /\ [][EvNext]_vars

\* the run got past the construction of the model
ModelBuilt == ev_pc \in {"load_mapping", "load_adapter", "evaluate", "done"}

\* C11 as stated: without peft the evaluation run fails with ImportError
\* only if --lora_path is given, and with --lora_path it does not get to
\* evaluate.
C11_AsStated ==
    ~PEFT_AVAILABLE =>
        /\ ev_raised = "ImportError" => lora_path
        /\ lora_path => ev_pc \notin {"evaluate", "done"}

\* C11: without peft the evaluation run never gets past the construction
\* of MindReasoner, whether or not --lora_path is given: it stops there
\* with ImportError (or before, with ZeroDivisionError, when the DeepSpeed
\* configuration divides by 0), no mapping checkpoint or adapter is loaded
\* and nothing is evaluated.
C11_NoPeftNoEvaluation ==
    (~PEFT_AVAILABLE /\ ev_pc # "idle") =>
        /\ ~ModelBuilt
        /\ ev_model = NoValue
        /\ ~mapping_loaded /\ ~adapter_loaded
        /\ evaluator_calls = <<>>
        /\ ev_pc = "raised" =>
               ev_raised = IF ev_ds_config = NoValue THEN "ZeroDivisionError"
                           ELSE "ImportError"

C11_Witness ==
    /\ ~PEFT_AVAILABLE
    /\ ~lora_path
    /\ ev_pc = "raised"
    /\ ev_raised = "ImportError"

\* the readers of math test sets (MGSM, MSVAMP); the others read
\* classification test sets (XNLI, AmericasNLI, X-CSQA)
MathTestSets == {"read_mgsms", "read_msvamp"}

\* C14: for every --task, each language is evaluated by evaluate_math
\* exactly when the loaded test sets are math sets (MGSM or MSVAMP), and by
\* evaluate_classification exactly when they are classification sets.
C14_EvaluatorMatchesTestSets ==
    \A k \in 1..Len(evaluator_calls) :
        evaluator_calls[k] = IF test_sets \in MathTestSets THEN "evaluate_math"
                             ELSE "evaluate_classification"

=============================================================================
